---- MODULE Spec2Model ----
(***************************************************************************)
(* The users / posts / likes data layer of src/main.py: three tables, the  *)
(* three insert functions add_user, add_post, add_like, and the four       *)
(* queries get_all_posts, get_all_users, get_post_with_user_id and         *)
(* get_user_like_post, run against the SQLite engine the module creates.   *)
(*                                                                         *)
(* A table is the sequence of its rows in rowid (insertion) order.  The    *)
(* inserts are actions; the queries read the tables and change nothing,    *)
(* so they are operators over the current state.                           *)
(***************************************************************************)
EXTENDS Integers, Sequences, FiniteSets, TLC

VARIABLES users, posts, likes, issued, created, call, ret

vars == <<users, posts, likes, issued, created, call, ret>>
tables == <<users, posts, likes>>

(***************************************************************************)
(* Bounds of the model: how many identifiers each table's default may      *)
(* generate.                                                               *)
(***************************************************************************)
MaxUsers == 2
MaxPosts == 1
MaxLikes == 2

(***************************************************************************)
(* Inputs of the callers, taken from the sample data of the module.        *)
(***************************************************************************)
FirstNames == {"Pema", "Dorji"}
LastNames == {"Dendup"}
Emails == {"pema@gmail.com", "dorjizangpo@gmail.com"}
ProfileNames == {"Alpha"}
Contents == {"Kuzuzangpo la!"}

\* An identifier string that generate_uuid never produced.
NoSuchId == <<"none", 0>>

\* Python's None; a record, so that it compares with rows without a type clash.
None == [type |-> "NoneType"]

Range(s) == {s[i] : i \in 1..Len(s)}

(***************************************************************************)
(* generate_uuid: str(uuid.uuid4()).  The values are opaque and are only   *)
(* ever compared for equality, and a new one equals no value seen before;  *)
(* the model draws the next value of the namespace `tag` that was never    *)
(* issued.                                                                 *)
(***************************************************************************)
IssuedCount(tag) == Cardinality({i \in issued : i[1] = tag})

generate_uuid(tag) == <<tag, IssuedCount(tag) + 1>>

(***************************************************************************)
(* Results of a call: a returned value or a raised exception.              *)
(***************************************************************************)
Return(value) == [kind |-> "return", value |-> value]

InviladInput(message, status_code) ==
    [kind |-> "raise", exc |-> "InviladInput",
     message |-> message, status_code |-> status_code]

IntegrityError == [kind |-> "raise", exc |-> "IntegrityError"]

(***************************************************************************)
(* The engine: create_engine("sqlite:///socialDB.db") with no connect      *)
(* hook.  SQLite enforces FOREIGN KEY clauses only on a connection that    *)
(* ran PRAGMA foreign_keys = ON; the code never issues it.                 *)
(***************************************************************************)
PRAGMA_foreign_keys == FALSE

\* ForeignKey("users.userId") and ForeignKey("posts.postId") name no
\* ondelete: the DDL carries no ON DELETE clause, which is NO ACTION.
ondelete == "NO ACTION"

UserIds == {u.userId : u \in Range(users)}
PostIds == {p.postId : p \in Range(posts)}
LikeIds == {l.likeId : l \in Range(likes)}

\* select(User).filter(User.email == email); the unique index on
\* users.email is the same lookup.
UserByEmail_wrongcol(email) == SelectSeq(users, LAMBDA u : u.profile_name = email)

UserByEmail(email) == SelectSeq(users, LAMBDA u : u.email = email)

\* Constraints of the users table: primary key, and unique=True on email.
users_constraints_ok(row) ==
    /\ row.userId \notin UserIds
    /\ UserByEmail(row.email) = <<>>

\* Constraints of the posts table: primary key, foreign key to users.userId.
posts_constraints_ok(row) ==
    /\ row.postId \notin PostIds
    /\ PRAGMA_foreign_keys => row.user_id \in UserIds

\* Constraints of the likes table: primary key, foreign keys to
\* posts.postId and users.userId.
likes_constraints_ok(row) ==
    /\ row.likeId \notin LikeIds
    /\ PRAGMA_foreign_keys => (row.post_id \in PostIds /\ row.user_id \in UserIds)

(***************************************************************************)
(* The identifiers a caller passes: one that was generated for a row of    *)
(* the table, or a string that names no row.                               *)
(***************************************************************************)
UserIdArgs == {i \in issued : i[1] = "users"} \cup {NoSuchId}
PostIdArgs == {i \in issued : i[1] = "posts"} \cup {NoSuchId}

Init ==
    /\ users = <<>>
    /\ posts = <<>>
    /\ likes = <<>>
    /\ issued = {}
    /\ created = {}
    /\ call = [op |-> "none", args |-> None]
    /\ ret = Return(None)

(***************************************************************************)
(* add_user                                                                *)
(***************************************************************************)
NewUser_swapped(first_name, last_name, email, profile_name) ==
    [userId |-> generate_uuid("users"),
     first_name |-> last_name,
     last_name |-> first_name,
     email |-> email,
     profile_name |-> profile_name]

NewUser(first_name, last_name, email, profile_name) ==
    [userId |-> generate_uuid("users"),
     first_name |-> first_name,
     last_name |-> last_name,
     email |-> email,
     profile_name |-> profile_name]

\* session.add(user); session.commit(); session.refresh(user)
InsertUser(user) ==
    IF users_constraints_ok(user)
    THEN /\ users' = Append(users, user)
         /\ issued' = issued \cup {user.userId}
         /\ ret' = Return(None)
    ELSE /\ UNCHANGED <<users, issued>>
         /\ ret' = IntegrityError

add_user_nocheck(first_name, last_name, email, profile_name) ==
    /\ IssuedCount("users") < MaxUsers
    /\ call' = [op |-> "add_user",
                args |-> [first_name |-> first_name, last_name |-> last_name,
                          email |-> email, profile_name |-> profile_name]]
    /\ InsertUser(NewUser(first_name, last_name, email, profile_name))
    /\ UNCHANGED <<posts, likes, created>>

add_user(first_name, last_name, email, profile_name) ==
    LET user_exists == UserByEmail(email) # <<>> IN
    /\ user_exists \/ IssuedCount("users") < MaxUsers
    /\ call' = [op |-> "add_user",
                args |-> [first_name |-> first_name, last_name |-> last_name,
                          email |-> email, profile_name |-> profile_name]]
    /\ IF user_exists
       THEN /\ ret' = InviladInput(<<"User with email:", email, " already exist">>, 409)
            /\ UNCHANGED <<users, issued>>
       ELSE InsertUser(NewUser(first_name, last_name, email, profile_name))
    /\ UNCHANGED <<posts, likes, created>>

(***************************************************************************)
(* add_post                                                                *)
(***************************************************************************)
add_post(user_id, content) ==
    LET post == [postId |-> generate_uuid("posts"),
                 user_id |-> user_id,
                 content |-> content] IN
    /\ IssuedCount("posts") < MaxPosts
    /\ call' = [op |-> "add_post",
                args |-> [user_id |-> user_id, content |-> content]]
    /\ IF posts_constraints_ok(post)
       THEN /\ posts' = Append(posts, post)
            /\ issued' = issued \cup {post.postId}
            /\ created' = created \cup
                   {[postId |-> post.postId, owner |-> user_id, content |-> content]}
            /\ ret' = Return(None)
       ELSE /\ UNCHANGED <<posts, issued, created>>
            /\ ret' = IntegrityError
    /\ UNCHANGED <<users, likes>>

(***************************************************************************)
(* add_like                                                                *)
(***************************************************************************)
add_like(user_id, post_id) ==
    LET new_like == [likeId |-> generate_uuid("likes"),
                     post_id |-> post_id,
                     user_id |-> user_id] IN
    /\ IssuedCount("likes") < MaxLikes
    /\ call' = [op |-> "add_like",
                args |-> [user_id |-> user_id, post_id |-> post_id]]
    /\ IF likes_constraints_ok(new_like)
       THEN /\ likes' = Append(likes, new_like)
            /\ issued' = issued \cup {new_like.likeId}
            /\ ret' = Return(None)
       ELSE /\ UNCHANGED <<likes, issued>>
            /\ ret' = IntegrityError
    /\ UNCHANGED <<users, posts, created>>

(***************************************************************************)
(* The queries.                                                            *)
(***************************************************************************)
get_all_posts == posts

get_all_users == users

get_post_with_user_id_nofilter(user_id) == posts

get_post_with_user_id(user_id) ==
    SelectSeq(posts, LAMBDA p : p.user_id = user_id)

\* The rows of  SELECT users.*, likes.* FROM users, likes
\*              WHERE likes.post_id = :post_id AND users."userId" = likes.user_id
\* reduced by scalars() to their first entity, the User; one row per
\* matching (user, like) pair, listed here like by like.
RECURSIVE JoinFrom_cross(_, _)
JoinFrom_cross(i, post_id) ==
    IF i > Len(likes) THEN <<>>
    ELSE (IF likes[i].post_id = post_id THEN users ELSE <<>>)
         \o JoinFrom_cross(i + 1, post_id)

RECURSIVE JoinFrom(_, _)
JoinFrom(i, post_id) ==
    IF i > Len(likes) THEN <<>>
    ELSE (IF likes[i].post_id = post_id
          THEN SelectSeq(users, LAMBDA u : u.userId = likes[i].user_id)
          ELSE <<>>)
         \o JoinFrom(i + 1, post_id)

UserLikeRows_cross(post_id) == JoinFrom_cross(1, post_id)

UserLikeRows_distinct(post_id) ==
    LET r == JoinFrom(1, post_id)
        keep == SelectSeq([i \in 1..Len(r) |-> i],
                          LAMBDA i : \A j \in 1..(i - 1) : r[j] # r[i])
    IN [k \in 1..Len(keep) |-> r[keep[k]]]

UserLikeRows(post_id) == JoinFrom(1, post_id)

\* The statement has no ORDER BY, so the join may list its rows in any
\* order: get_user_like_post is the set of lists .all() can return.
PermutationsOf(s) ==
    {[i \in 1..Len(s) |-> s[f[i]]] : f \in Permutations(1..Len(s))}

get_user_like_post(post_id) == PermutationsOf(UserLikeRows(post_id))

\* display_user_like_post prints len(users) as "Total Likes".
TotalLikes(result) == Len(result)

Next ==
    \/ \E f \in FirstNames, l \in LastNames, e \in Emails, p \in ProfileNames :
           add_user(f, l, e, p)
    \/ \E u \in UserIdArgs, c \in Contents : add_post(u, c)
    \/ \E u \in UserIdArgs, p \in PostIdArgs : add_like(u, p)

Spec == Init /\ [][Next]_vars

(***************************************************************************)
(* Deleting a row.  No function of the module issues a DELETE; these two   *)
(* actions are what the storage does with one under the declared schema:   *)
(* foreign keys without an ON DELETE clause, on a connection that does not *)
(* enforce them.  They are part of SpecDelete only.                        *)
(***************************************************************************)
delete_user(user_id) ==
    LET referenced == \/ \E p \in Range(posts) : p.user_id = user_id
                      \/ \E l \in Range(likes) : l.user_id = user_id
        owned == {p.postId : p \in {q \in Range(posts) : q.user_id = user_id}}
    IN
    /\ user_id \in UserIds
    /\ call' = [op |-> "delete_user", args |-> [user_id |-> user_id]]
    /\ IF PRAGMA_foreign_keys /\ ondelete = "NO ACTION" /\ referenced
       THEN /\ ret' = IntegrityError
            /\ UNCHANGED tables
       ELSE /\ users' = SelectSeq(users, LAMBDA u : u.userId # user_id)
            /\ IF PRAGMA_foreign_keys /\ ondelete = "CASCADE"
               THEN /\ posts' = SelectSeq(posts, LAMBDA p : p.user_id # user_id)
                    /\ likes' = SelectSeq(likes, LAMBDA l :
                                   l.user_id # user_id /\ l.post_id \notin owned)
               ELSE UNCHANGED <<posts, likes>>
            /\ ret' = Return(None)
    /\ UNCHANGED <<issued, created>>

delete_post(post_id) ==
    LET referenced == \E l \in Range(likes) : l.post_id = post_id IN
    /\ post_id \in PostIds
    /\ call' = [op |-> "delete_post", args |-> [post_id |-> post_id]]
    /\ IF PRAGMA_foreign_keys /\ ondelete = "NO ACTION" /\ referenced
       THEN /\ ret' = IntegrityError
            /\ UNCHANGED tables
       ELSE /\ posts' = SelectSeq(posts, LAMBDA p : p.postId # post_id)
            /\ IF PRAGMA_foreign_keys /\ ondelete = "CASCADE"
               THEN likes' = SelectSeq(likes, LAMBDA l : l.post_id # post_id)
               ELSE UNCHANGED likes
            /\ ret' = Return(None)
            /\ UNCHANGED users
    /\ UNCHANGED <<issued, created>>

NextDelete ==
    \/ Next
    \/ \E u \in UserIdArgs : delete_user(u)
    \/ \E p \in PostIdArgs : delete_post(p)

SpecDelete == Init /\ [][NextDelete]_vars

(***************************************************************************)
(* Properties.                                                             *)
(***************************************************************************)
EmailPersisted(email) == \E u \in Range(users) : u.email = email

Occurrences(s, x) == Cardinality({i \in 1..Len(s) : s[i] = x})

\* C1: add_user called with an email some persisted user already has raises
\* InviladInput with status code 409 and inserts nothing: users, posts and
\* likes after the call are the ones before it.
C1_DuplicateEmailRejected ==
    [][(call'.op = "add_user" /\ EmailPersisted(call'.args.email))
        => /\ ret'.kind = "raise"
           /\ ret'.exc = "InviladInput"
           /\ ret'.status_code = 409
           /\ users' = users
           /\ posts' = posts
           /\ likes' = likes]_vars

\* A duplicate email was refused although the other fields differ from the
\* persisted row, with posts present.
C1_Witness ==
    /\ call.op = "add_user"
    /\ ret.kind = "raise"
    /\ ret.exc = "InviladInput"
    /\ \E u \in Range(users) :
           u.email = call.args.email /\ u.first_name # call.args.first_name
    /\ posts # <<>>

\* C2: every post's owning user is a persisted user, and every like's user
\* and post are a persisted user and a persisted post.
C2_ReferentialIntegrity ==
    /\ \A p \in Range(posts) : p.user_id \in UserIds
    /\ \A l \in Range(likes) : l.user_id \in UserIds /\ l.post_id \in PostIds

\* C3: add_post with a user identifier of no persisted user, and add_like
\* with a user or post identifier of no persisted row, end in a storage
\* failure and persist no post or like row.
C3_DanglingInsertFails ==
    [][(\/ call'.op = "add_post" /\ call'.args.user_id \notin UserIds
        \/ call'.op = "add_like" /\ (\/ call'.args.user_id \notin UserIds
                                     \/ call'.args.post_id \notin PostIds))
        => /\ ret'.kind = "raise"
           /\ ret'.exc = "IntegrityError"
           /\ posts' = posts
           /\ likes' = likes]_vars

\* C4: no two distinct persisted users have the same email.
C4_UniqueEmails ==
    \A i, j \in 1..Len(users) : i # j => users[i].email # users[j].email

\* Two users are persisted and a further add_user was refused.
C4_Witness ==
    /\ Len(users) = 2
    /\ call.op = "add_user"
    /\ ret.kind = "raise"

\* What add_user does to the tables on an email no persisted user has: one
\* new row with the given fields and an identifier never seen before, which
\* a following get_all_users lists.
C5_Inserted ==
    /\ Len(users') = Len(users) + 1
    /\ SubSeq(users', 1, Len(users)) = users
    /\ LET row == users'[Len(users')] IN
       /\ row.first_name = call'.args.first_name
       /\ row.last_name = call'.args.last_name
       /\ row.email = call'.args.email
       /\ row.profile_name = call'.args.profile_name
       /\ row.userId \notin issued
       /\ row.userId \notin UserIds
       /\ \A p \in Range(posts) : p.user_id # row.userId
       /\ \A l \in Range(likes) : l.user_id # row.userId
       /\ \E i \in 1..Len(get_all_users') : get_all_users'[i].userId = row.userId
    /\ posts' = posts
    /\ likes' = likes

\* C5 (as claimed): add_user with an email no persisted user has succeeds,
\* persists exactly one new row with the given fields and a fresh
\* identifier, and returns that persisted record.
C5_ReturnsPersistedRecord ==
    [][(call'.op = "add_user" /\ ~EmailPersisted(call'.args.email))
        => /\ C5_Inserted
           /\ ret'.kind = "return"
           /\ ret'.value = users'[Len(users')]]_vars

\* C5 (amended): add_user with an email no persisted user has succeeds,
\* persists exactly one new row with the given fields and a fresh
\* identifier, and returns None; the row's identifier is in the result of
\* a following get_all_users.
C5_InsertsAndReturnsNone ==
    [][(call'.op = "add_user" /\ ~EmailPersisted(call'.args.email))
        => /\ C5_Inserted
           /\ ret' = Return(None)]_vars

\* A second user was just added with a new email.
C5_Witness ==
    /\ call.op = "add_user"
    /\ ret = Return(None)
    /\ Len(users) = 2
    /\ users[2].email = call.args.email
    /\ users[2].first_name = call.args.first_name

\* C6: for every user identifier u, get_post_with_user_id(u) lists exactly
\* the posts that add_post created with owner u, each once, and nothing
\* when u owns no post.
C6_PostsByOwner ==
    \A u \in UserIdArgs :
        LET r == get_post_with_user_id(u)
            mine == {c \in created : c.owner = u}
        IN /\ {[postId |-> r[i].postId, owner |-> r[i].user_id,
                content |-> r[i].content] : i \in 1..Len(r)} = mine
           /\ Len(r) = Cardinality(mine)
           /\ (mine = {} => r = <<>>)

\* One persisted user owns a post and another persisted user owns none.
C6_Witness ==
    \E c \in created : \E u \in UserIds :
        /\ c.owner \in UserIds
        /\ u # c.owner
        /\ get_post_with_user_id(c.owner) # <<>>
        /\ get_post_with_user_id(u) = <<>>

\* C7: get_user_like_post(p) is the empty list when p is the identifier of
\* no persisted post, and when p is a persisted post with no like.
C7_EmptyForMissingOrUnliked ==
    \A p \in PostIdArgs :
        (p \notin PostIds \/ ~\E l \in Range(likes) : l.post_id = p)
            => get_user_like_post(p) = {<<>>}

\* C8: a persisted user is in get_user_like_post(p) if and only if a like
\* row links that user to p, and the result holds persisted users only;
\* when the only like is B's on a post P owned by A, the result is [B].
C8_LikersOfPost ==
    \A p \in PostIdArgs : \A r \in get_user_like_post(p) :
        /\ Range(r) \subseteq Range(users)
        /\ \A u \in Range(users) :
               (u \in Range(r)) <=>
                   (\E l \in Range(likes) : l.user_id = u.userId /\ l.post_id = p)
        /\ \A a, b \in Range(users) :
               (/\ a # b
                /\ \E q \in Range(posts) : q.postId = p /\ q.user_id = a.userId
                /\ Len(likes) = 1
                /\ likes[1].user_id = b.userId
                /\ likes[1].post_id = p)
               => r = <<b>>

\* A post P owned by A carries one like, by another user B, and nothing
\* else is liked.
C8_Witness ==
    \E a, b \in Range(users) : \E q \in Range(posts) :
        /\ a # b
        /\ q.user_id = a.userId
        /\ Len(likes) = 1
        /\ likes[1].user_id = b.userId
        /\ likes[1].post_id = q.postId
        /\ get_user_like_post(q.postId) = {<<b>>}

\* C9: deleting a user removes the user's posts, the likes on those posts
\* and the likes the user made; deleting a post removes the likes on it.
C9_CascadeDelete ==
    [][/\ (call'.op = "delete_user" /\ call'.args.user_id \in UserIds) =>
              LET u == call'.args.user_id
                  owned == {p.postId : p \in {q \in Range(posts) : q.user_id = u}}
              IN /\ u \notin UserIds'
                 /\ \A p \in Range(posts') : p.user_id # u
                 /\ \A l \in Range(likes') : l.user_id # u /\ l.post_id \notin owned
       /\ (call'.op = "delete_post" /\ call'.args.post_id \in PostIds) =>
              LET p == call'.args.post_id
              IN /\ p \notin PostIds'
                 /\ \A l \in Range(likes') : l.post_id # p]_vars

\* C10: add_like accepts a (user, post) pair that is already liked, and
\* get_user_like_post(p) holds one entry per like row on p by a persisted
\* user: a user with k like rows on p is listed k times, and the printed
\* total is the number of those rows.
C10_OneEntryPerLike ==
    \A p \in PostIdArgs : \A r \in get_user_like_post(p) :
        /\ TotalLikes(r) = Cardinality({i \in 1..Len(likes) :
                               likes[i].post_id = p /\ likes[i].user_id \in UserIds})
        /\ \A u \in Range(users) :
               Occurrences(r, u) = Cardinality({i \in 1..Len(likes) :
                                       likes[i].post_id = p /\ likes[i].user_id = u.userId})

\* A persisted user liked the same persisted post twice and is listed twice.
C10_Witness ==
    \E u \in Range(users) : \E q \in Range(posts) :
        /\ Len(likes) = 2
        /\ \A i \in 1..2 : likes[i].user_id = u.userId /\ likes[i].post_id = q.postId
        /\ call.op = "add_like"
        /\ ret = Return(None)
        /\ get_user_like_post(q.postId) = {<<u, u>>}

====
